---- MODULE Spec2Model ----
(***************************************************************************)
(* Getis-Ord Gi* hotspot analysis of geo_mcp.                              *)
(*                                                                         *)
(* The model follows hotspot_analysis_getis_ord_gi_star as implemented in  *)
(* src/geo_mcp/core/spatial_analysis.py ("core") and in                    *)
(* src/mcp-client/server.py ("client"), together with the entry points     *)
(* that supply its distance_threshold argument.                            *)
(*                                                                         *)
(* Numbers.  Attribute values are small naturals, so every sum the code    *)
(* forms is exact in float64.  Points lie on one meridian and a latitude   *)
(* is given by its arc length in metres from the first grid point, so the  *)
(* haversine distance times the earth radius is the absolute difference    *)
(* of two arc lengths.  A float that the code obtains through a square     *)
(* root or a division is kept as sign * sqrt(sqn / sqd), or as NaN.        *)
(* Tables list their rows in non-decreasing order, the first at arc length *)
(* 0: every table is a row permutation and a shift along the meridian of   *)
(* such a table, and the analysis treats rows alike and uses latitudes     *)
(* through distances only.  The                                            *)
(* content of a "distance" column is part of the state where the function  *)
(* reads it, as distance_arr.                                              *)
(*                                                                         *)
(* Specifications.  Spec: every entry point on small tables and on files   *)
(* that fail.  SpecOrder: tables in any row order.  SpecFault: a statement *)
(* of the loop may raise.  SpecUniform: one value in every row, decimal    *)
(* fractions included.  SpecCluster: a cluster before a background, large  *)
(* enough for scores beyond the cut-offs.  SpecRepeat: invocations that    *)
(* follow one another without anything being cleared in between.           *)
(*                                                                         *)
(* The other programs of the repository have their own variables and       *)
(* specifications.  SpecServer: sse_server.py, its streams and requests on *)
(* one event loop, a step running from one suspension to the next.         *)
(* SpecStreams: the same with requests that name a registered client, and  *)
(* with streams that are resumed as long as they run.  SpecTools:          *)
(* GeoMCPServer.  SpecGeo: calculate_geodesic_distance on inputs given by  *)
(* the pieces its parsing takes them into.                                 *)
(***************************************************************************)
EXTENDS Integers, Sequences, FiniteSets, TLC

\* ------------------------------------------------------------------ bounds
MaxN == 3           \* rows of a table: 1..MaxN
MaxPos == 1         \* latitudes are 0, 1500, ..., MaxPos*1500 metres of arc
MaxVal == 2         \* attribute values are 0..MaxVal
MaxRadius == 1      \* a "distance" column holds 0, 1500, ..., MaxRadius*1500
MaxCluster == 3     \* points of the cluster of a cluster table: 2..MaxCluster
MaxBackground == 15 \* its background points: 13..MaxBackground
MaxClients == 1     \* SSE connections opened in one run of the server
MaxCalls == 2       \* requests to /mcp_call in one run of the server
MaxFunctions == 2   \* members of a module handed to auto_register_from_module
MaxFields == 2      \* pieces of an input of calculate_geodesic_distance, each way

\* ------------------------------------------------------- program constants
DefaultThreshold == 1000
PScale == 10000     \* p_value 1.0 in units of 1e-4

\* an optional scalar: Python's None, or a number of metres
None == [isNone |-> TRUE, v |-> 0]

Some(x) == [isNone |-> FALSE, v |-> x]

\* a JSON value that is a number or a text
Number(x) == [kind |-> "number", v |-> x, text |-> ""]

Text(t) == [kind |-> "text", v |-> 0, text |-> t]

Positions == {k * 1500 : k \in 0..MaxPos}
Radii == {k * 1500 : k \in 0..MaxRadius}
Values == 0..MaxVal
Scalars == {k * 1500 : k \in 0..MaxPos}
ThresholdArgs == {Some(x) : x \in Scalars} \cup {None}

\* --------------------------------------------------------------- helpers
Abs(x) == IF x < 0 THEN -x ELSE x

Sign(x) == IF x < 0 THEN -1 ELSE IF x > 0 THEN 1 ELSE 0

RECURSIVE SumTo(_, _)
\* np.sum over the first k entries of a vector
SumTo(f, k) == IF k = 0 THEN 0 ELSE f[k] + SumTo(f, k - 1)

NpSum(f) == SumTo(f, Len(f))

\* ---------------------------------------------------------------- floats
NaN == [kind |-> "nan", sgn |-> 0, sqn |-> 0, sqd |-> 1]

Zero == [kind |-> "num", sgn |-> 0, sqn |-> 0, sqd |-> 1]

\* sign * sqrt(sqn / sqd), sqd > 0
Root(sgn, sqn, sqd) ==
    IF sqn = 0 THEN Zero
    ELSE [kind |-> "num", sgn |-> sgn, sqn |-> sqn, sqd |-> sqd]

IsNaN(a) == a.kind = "nan"

\* float ==: a NaN equals nothing, itself included
FloatEq(a, b) ==
    /\ ~IsNaN(a)
    /\ ~IsNaN(b)
    /\ a.sgn = b.sgn
    /\ a.sqn * b.sqd = b.sqn * a.sqd

\* a > c / 100 for a float a and a natural c
FloatGt(a, c) ==
    /\ ~IsNaN(a)
    /\ a.sgn = 1
    /\ a.sqn * 10000 > c * c * a.sqd

\* a < -c / 100
FloatLt(a, c) ==
    /\ ~IsNaN(a)
    /\ a.sgn = -1
    /\ a.sqn * 10000 > c * c * a.sqd

\* abs(a) <= c / 100
AbsLe(a, c) == ~IsNaN(a) /\ a.sqn * 10000 <= c * c * a.sqd

\* ---------------------------------------------------------------- tables
\* rows as pairs <<lat, val>>, listed in non-decreasing order
RowsSorted(rows) ==
    \A k \in 1..(Len(rows) - 1) :
       \/ rows[k][1] < rows[k + 1][1]
       \/ rows[k][1] = rows[k + 1][1] /\ rows[k][2] <= rows[k + 1][2]

\* A data frame with the columns lat, lon, val and, when hasDistance, distance.
\* Arc lengths count from the first row.
\* The value of row k is val[k] / 10 ^ places: a whole number when places is 0.
Frames ==
    UNION {
      { [n |-> n,
         lat |-> [k \in 1..n |-> rows[k][1]],
         lon |-> [k \in 1..n |-> 0],
         val |-> [k \in 1..n |-> rows[k][2]],
         places |-> 0,
         hasDistance |-> has] :
            rows \in {r \in [1..n -> Positions \X Values] :
                        RowsSorted(r) /\ r[1][1] = 0},
            has \in BOOLEAN }
      : n \in 1..MaxN }

\* the contents a "distance" column of the frame can have, rows that agree in
\* lat and val listed by non-decreasing distance
DistanceColumns(frame) ==
    { r \in [1..frame.n -> Radii] :
         \A k \in 1..(frame.n - 1) :
            (frame.lat[k] = frame.lat[k + 1] /\ frame.val[k] = frame.val[k + 1])
               => r[k] <= r[k + 1] }

\* ------------------------------------------------- distance matrix (4.1)
\* variant: the signed arc from point j to point i
HaversineSigned(df) ==
    [i \in 1..df.n |-> [j \in 1..df.n |-> df.lat[i] - df.lat[j]]]

\* haversine_distances(coords_rad, coords_rad) * 6371000, for points of one
\* meridian given by their arc length
HaversineDistances(df) ==
    [i \in 1..df.n |-> [j \in 1..df.n |-> Abs(df.lat[i] - df.lat[j])]]

\* --------------------------------------------------- weight matrix (4.2)
\* the test that selects the per-point branch
UseVariable(threshold, df) == threshold.isNone /\ df.hasDistance

\* variant: the radius of the column point decides
WeightsVariableColumn(d, distance_arr, n) ==
    [i \in 1..n |-> [j \in 1..n |-> IF d[i][j] <= distance_arr[j] THEN 1 ELSE 0]]

\* variant: a point on the rim of the radius is no neighbour
WeightsVariableStrict(d, distance_arr, n) ==
    [i \in 1..n |-> [j \in 1..n |-> IF d[i][j] < distance_arr[i] THEN 1 ELSE 0]]

\* wij[i] = (dists[i] <= distance_arr[i]).astype(int), row by row
WeightsVariable(d, distance_arr, n) ==
    [i \in 1..n |-> [j \in 1..n |-> IF d[i][j] <= distance_arr[i] THEN 1 ELSE 0]]

\* variant: only the upper triangle is thresholded
WeightsFixedUpper(d, threshold, n) ==
    [i \in 1..n |-> [j \in 1..n |->
        IF i <= j /\ d[i][j] <= threshold THEN 1 ELSE 0]]

\* wij = (dists <= distance_threshold).astype(int)
WeightsFixed(d, threshold, n) ==
    [i \in 1..n |-> [j \in 1..n |-> IF d[i][j] <= threshold THEN 1 ELSE 0]]

\* variant: another default radius
FixedThresholdWider(threshold) ==
    IF threshold.isNone THEN Some(DefaultThreshold * 5) ELSE threshold

\* the threshold the fixed branch compares with: None becomes the default
FixedThreshold(threshold) ==
    IF threshold.isNone THEN Some(DefaultThreshold) ELSE threshold

\* the matrix as thresholded, before the diagonal is cleared
RawWeights(threshold, df, d, distance_arr) ==
    IF UseVariable(threshold, df)
    THEN WeightsVariable(d, distance_arr, df.n)
    ELSE WeightsFixed(d, FixedThreshold(threshold).v, df.n)

\* variant: the diagonal is left as thresholded
FillDiagonalSkipped(w, n) == w

\* np.fill_diagonal(wij, 0)
FillDiagonal(w, n) ==
    [i \in 1..n |-> [j \in 1..n |-> IF i = j THEN 0 ELSE w[i][j]]]

\* variant: wij.sum(axis=0)
ColumnSums(w, n) == [i \in 1..n |-> NpSum([k \in 1..n |-> w[k][i]])]

\* wij.sum(axis=1)
RowSums(w, n) == [i \in 1..n |-> NpSum(w[i])]

\* used_distance of the core implementation
UsedDistanceCore(threshold, df) ==
    IF UseVariable(threshold, df)
    THEN Text("variable (from data)")
    ELSE Number(FixedThreshold(threshold).v)

\* variant: the local keeps the value the function was entered with
LocalThresholdAsEntered(threshold, df) == threshold

\* the client implementation reports from the local distance_threshold as
\* it stands at the return statement (reassigned only in the fixed branch)
LocalThresholdAtReturn(threshold, df) ==
    IF UseVariable(threshold, df) THEN threshold ELSE FixedThreshold(threshold)

\* variant: the report looks at the argument as it was received
UsedDistanceClientFromArgument(threshold, df) ==
    IF ~threshold.isNone THEN Number(threshold.v) ELSE Text("variable")

UsedDistanceClient(threshold, df) ==
    IF ~LocalThresholdAtReturn(threshold, df).isNone
    THEN Number(LocalThresholdAtReturn(threshold, df).v)
    ELSE Text("variable")

UsedDistance(impl, threshold, df) ==
    IF impl = "core" THEN UsedDistanceCore(threshold, df)
    ELSE UsedDistanceClient(threshold, df)

\* ------------------------------------------------ global statistics (4.3)
\* The sign of (xj2_sum / n) - mean_x ** 2 in float64 for a column of n
\* cells that all hold tenths / 10, n <= 5: the sums and quotients of lines
\* 81-84 carried out in binary64, round to nearest.
\*   0.1, n = 3: xj_sum 0.30000000000000004, mean_x 0.10000000000000002,
\*     xj2_sum / n = 0.010000000000000002, mean_x ** 2 = 0.010000000000000004
\*   0.2, n = 3: xj_sum 0.6000000000000001, mean_x 0.20000000000000004,
\*     xj2_sum / n = 0.04000000000000001, mean_x ** 2 = 0.040000000000000015
\*   0.1 and 0.2 with n = 2, 4, 5, and 0.5 with every n: both sides agree
ConstantColumnVariance(tenths, n) ==
    IF tenths \in {1, 2} /\ n = 3 THEN -1 ELSE 0

\* variant: the sums run over the rows at the place of the first row
GlobalStatsLocal(df) ==
    LET near == [k \in 1..df.n |-> IF df.lat[k] = df.lat[1] THEN df.val[k] ELSE 0]
        xs == NpSum(near)
        x2 == NpSum([k \in 1..df.n |-> near[k] * near[k]])
    IN [n |-> df.n, xj_sum |-> xs, xj2_sum |-> x2,
        sVar |-> IF df.places = 0 THEN df.n * x2 - xs * xs
                 ELSE ConstantColumnVariance(df.val[1], df.n)]

\* xj_sum, xj2_sum; mean_x = xj_sum / n; s = sqrt(xj2_sum / n - mean_x ** 2),
\* so that s * s = sVar / (n * n).  Whole numbers make every step exact; a
\* column of equal decimal fractions gives the float64 difference, which can
\* be below 0, and then s is sqrt of a negative number: NaN.
GlobalStats(df) ==
    LET xs == NpSum(df.val)
        x2 == NpSum([k \in 1..df.n |-> df.val[k] * df.val[k]])
    IN [n |-> df.n, xj_sum |-> xs, xj2_sum |-> x2,
        sVar |-> IF df.places = 0 THEN df.n * x2 - xs * xs
                 ELSE ConstantColumnVariance(df.val[1], df.n)]

\* ---------------------------------------------------- Gi* per point (4.4)
\* variant: the other points are counted in place of n
VarianceTermOthers(n, w_i, sum_w_i) ==
    (n - 1) * NpSum([k \in 1..n |-> w_i[k] * w_i[k]]) - sum_w_i * sum_w_i

\* n * np.sum(wij_i ** 2) - sum_wij_i ** 2
VarianceTerm(n, w_i, sum_w_i) ==
    n * NpSum([k \in 1..n |-> w_i[k] * w_i[k]]) - sum_w_i * sum_w_i

\* denom = s * np.sqrt(term / (n - 1)); with n = 1 the quotient is 0 / 0, and
\* s is NaN when the difference under its root is below 0
Denom(st, term) ==
    IF st.n = 1 \/ st.sVar < 0 THEN NaN
    ELSE Root(1, st.sVar * term, st.n * st.n * (st.n - 1))

\* n * (num - mean_x * sum_wij_i)
ScaledNumerator(st, w_i, sum_w_i, xj) ==
    st.n * NpSum([k \in 1..st.n |-> w_i[k] * xj[k]]) - st.xj_sum * sum_w_i

\* the test of the edge case: denom == 0
IsEdgeCase(denom) == FloatEq(denom, Zero)

\* variant: the variance term is not divided by n - 1
QuotientUndivided(st, scaledNum, denom, term) ==
    IF IsNaN(denom) THEN NaN
    ELSE Root(Sign(scaledNum), scaledNum * scaledNum, st.sVar * term)

\* gi_star = (num - mean_x * sum_wij_i) / denom, for denom that is not 0
Quotient(st, scaledNum, denom, term) ==
    IF IsNaN(denom) THEN NaN
    ELSE Root(Sign(scaledNum), scaledNum * scaledNum * (st.n - 1), st.sVar * term)

\* variant: the one-tailed value 1 - norm.cdf(abs(z))
OneTailed(z) ==
    IF IsNaN(z) THEN [kind |-> "nan", units |-> 0]
    ELSE [kind |-> "num",
          units |-> IF z.sgn = 0 THEN 5000
                    ELSE IF AbsLe(z, 50) THEN 3085
                    ELSE IF AbsLe(z, 100) THEN 1586
                    ELSE IF AbsLe(z, 150) THEN 668
                    ELSE IF AbsLe(z, 196) THEN 250
                    ELSE IF AbsLe(z, 258) THEN 49
                    ELSE IF AbsLe(z, 329) THEN 5
                    ELSE 0]

\* 2 * (1 - norm.cdf(abs(z))) in units of 1e-4, rounded down on a grid of |z|
TwoTailed(z) ==
    IF IsNaN(z) THEN [kind |-> "nan", units |-> 0]
    ELSE [kind |-> "num",
          units |-> IF z.sgn = 0 THEN PScale
                    ELSE IF AbsLe(z, 50) THEN 6171
                    ELSE IF AbsLe(z, 100) THEN 3173
                    ELSE IF AbsLe(z, 150) THEN 1336
                    ELSE IF AbsLe(z, 196) THEN 500
                    ELSE IF AbsLe(z, 258) THEN 99
                    ELSE IF AbsLe(z, 329) THEN 10
                    ELSE 0]

POne == [kind |-> "num", units |-> PScale]

\* variant: the cut-offs belong to the significant side
LabelInclusive(z) ==
    IF z.kind = "num" /\ z.sgn = 1 /\ z.sqn * 10000 >= 258 * 258 * z.sqd
    THEN "hotspot"
    ELSE IF z.kind = "num" /\ z.sgn = -1 /\ z.sqn * 10000 >= 258 * 258 * z.sqd
    THEN "coldspot"
    ELSE "not significant"

\* the label of a z score (4.5)
Label(z) ==
    IF FloatGt(z, 258) THEN "hotspot"
    ELSE IF FloatLt(z, 258) THEN "coldspot"
    ELSE "not significant"

\* variant: no branch on denom == 0, the quotient is always formed
ScoresUnguarded(st, scaledNum, denom, term) ==
    LET g == IF IsNaN(denom) \/ st.sVar * term = 0 THEN NaN
             ELSE Root(Sign(scaledNum), scaledNum * scaledNum * (st.n - 1),
                       st.sVar * term)
    IN [gi_star |-> g, z_score |-> g, p_value |-> TwoTailed(g), divided |-> TRUE]

\* gi_star, z_score and p_value of one point: the branch on denom == 0
Scores(st, scaledNum, denom, term) ==
    IF IsEdgeCase(denom)
    THEN [gi_star |-> Zero, z_score |-> Zero, p_value |-> POne, divided |-> FALSE]
    ELSE LET g == Quotient(st, scaledNum, denom, term)
         IN [gi_star |-> g, z_score |-> g, p_value |-> TwoTailed(g),
             divided |-> TRUE]

\* variant: the index counts from one
PointStepOneBased(df, st, w, sums, i) ==
    LET term == VarianceTerm(st.n, w[i], sums[i])
        den == Denom(st, term)
        snum == ScaledNumerator(st, w[i], sums[i], df.val)
        sc == Scores(st, snum, den, term)
    IN [result |-> [index |-> i,
                    latitude |-> df.lat[i],
                    longitude |-> df.lon[i],
                    value |-> df.val[i],
                    gi_star |-> sc.gi_star,
                    z_score |-> sc.z_score,
                    p_value |-> sc.p_value,
                    label |-> Label(sc.z_score),
                    neighbors |-> sums[i]],
        local |-> [denom |-> den, scaledNum |-> snum, divided |-> sc.divided]]

\* one pass of the loop over the points: the result appended for point i and
\* the intermediate values it was computed from
PointStep(df, st, w, sums, i) ==
    LET term == VarianceTerm(st.n, w[i], sums[i])
        den == Denom(st, term)
        snum == ScaledNumerator(st, w[i], sums[i], df.val)
        sc == Scores(st, snum, den, term)
    IN [result |-> [index |-> i - 1,
                    latitude |-> df.lat[i],
                    longitude |-> df.lon[i],
                    value |-> df.val[i],
                    gi_star |-> sc.gi_star,
                    z_score |-> sc.z_score,
                    p_value |-> sc.p_value,
                    label |-> Label(sc.z_score),
                    neighbors |-> sums[i]],
        local |-> [denom |-> den, scaledNum |-> snum, divided |-> sc.divided]]

\* ---------------------------------------------------------- entry points
\* "core_direct": a call of the core function (also as the tool registered
\* by geo_mcp.__main__); "core_sse": the SSE dispatcher execute_mcp_function;
\* "client_tool": the tool of mcp-client/server.py.
Entries == {"core_direct", "core_sse", "client_tool"}

Impl(e) == IF e = "client_tool" THEN "client" ELSE "core"

\* the value of the parameter distance_threshold on entry to the function:
\* what the caller passed, or the default of the entry point
ArgumentReceived(e, sup, a) ==
    IF sup THEN a
    ELSE IF e = "core_direct" THEN Some(DefaultThreshold)
    ELSE IF e = "core_sse" THEN Some(DefaultThreshold)
    ELSE None

\* os.path.exists and the extension test
FileKinds == {"missing", "unsupported", "table"}

\* the columns lat_col, lon_col and value_col name, in the order the function
\* looks for them
RequiredColumns == <<"lat", "lon", "val">>

AllColumns == {"lat", "lon", "val", "distance"}

\* What is at file_path: no file, a file of another kind, or a table with
\* its columns, whether the cells of the required columns are numbers, and
\* whether it has no data row.
NoFile == [kind |-> "", columns |-> {}, numeric |-> TRUE, empty |-> FALSE]

FileOf(frame) ==
    [kind |-> "table",
     columns |-> {"lat", "lon", "val"} \cup
                 (IF frame.hasDistance THEN {"distance"} ELSE {}),
     numeric |-> TRUE,
     empty |-> frame.n = 0]

HasRequired(f) == \A k \in 1..Len(RequiredColumns) : RequiredColumns[k] \in f.columns

\* the files on which the function fails before its loop
FailingFiles ==
    { [kind |-> k, columns |-> {}, numeric |-> TRUE, empty |-> FALSE] :
         k \in FileKinds \ {"table"} }
    \cup
    { [kind |-> "table", columns |-> c, numeric |-> TRUE, empty |-> FALSE] :
         c \in {x \in SUBSET AllColumns :
                  \E k \in 1..Len(RequiredColumns) : RequiredColumns[k] \notin x} }
    \cup
    { [kind |-> "table", columns |-> c, numeric |-> nu, empty |-> nu] :
         c \in {AllColumns, AllColumns \ {"distance"}}, nu \in BOOLEAN }

Failure(info) == [status |-> "failure", info |-> info]

\* variant: the columns are looked for from the last to the first
LastMissingFrom(columns, k) ==
    LET absent == {j \in k..Len(RequiredColumns) : RequiredColumns[j] \notin columns}
    IN IF absent = {} THEN ""
       ELSE RequiredColumns[CHOOSE j \in absent : \A x \in absent : x <= j]

RECURSIVE FirstMissingFrom(_, _)
\* for col in [lat_col, lon_col, value_col]: the first col from position k on
\* that is not in df.columns, "" when there is none
FirstMissingFrom(columns, k) ==
    IF k > Len(RequiredColumns) THEN ""
    ELSE IF RequiredColumns[k] \notin columns THEN RequiredColumns[k]
    ELSE FirstMissingFrom(columns, k + 1)

\* the info of the failure the function returns before it reads the numbers,
\* "" when it returns none
Rejection(f) ==
    IF f.kind = "missing" THEN "file does not exist"
    ELSE IF f.kind = "unsupported" THEN "only csv, xls, xlsx are supported"
    ELSE IF FirstMissingFrom(f.columns, 1) # ""
    THEN "missing field: " \o FirstMissingFrom(f.columns, 1)
    ELSE ""

\* variant: the failure carries the fields of a success
ExceptResponseWithFields(message) ==
    [status |-> "failure", info |-> "hotspot analysis error: " \o message,
     count |-> 0, results |-> << >>]

\* the except clause: the value returned for an exception of the try block
ExceptResponse(message) == Failure("hotspot analysis error: " \o message)

\* the values of the locals of an invocation that has not assigned them
NoFrame ==
    [n |-> 0, lat |-> << >>, lon |-> << >>, val |-> << >>, places |-> 0,
     hasDistance |-> FALSE]

NoStats == [n |-> 0, xj_sum |-> 0, xj2_sum |-> 0, sVar |-> 0]

NoComparison == [scalar |-> None, radii |-> << >>]

NoResponse == [status |-> "none"]

\* variant: the list an earlier invocation built is kept
KeptResults(previous) == previous

\* results = []: the list of an invocation starts empty, whatever list an
\* earlier invocation built
NewResults(previous) == << >>

\* what an invocation is given: the entry point, the argument, the file and,
\* for a table that is analysed, its numbers
NoInputs ==
    [entry |-> "", supplied |-> FALSE, arg |-> None, file |-> NoFile,
     table |-> << >>]

\* nothing remembered
NoMemo ==
    [set |-> FALSE, between |-> FALSE, inputs |-> NoInputs,
     response |-> NoResponse]

VARIABLES
    pc,                  \* "idle", "loop" (in the loop over points), "done"
    entry,               \* the entry point of the invocation
    supplied,            \* whether the caller passed distance_threshold
    arg,                 \* the value passed, when supplied
    df,                  \* the data frame read from the file
    distance_arr,        \* the "distance" column, once the function read it
    distance_threshold,  \* the local variable of that name
    dists,               \* the distance matrix
    wij,                 \* the weight matrix after np.fill_diagonal
    sum_wij,             \* wij.sum(axis=1)
    stats,               \* n, xj_sum, xj2_sum and the variance they give
    used_distance,       \* the value reported as distance_threshold
    policy,              \* the branch that built wij: "variable" or "fixed"
    compared,            \* what dists was compared with: a scalar, or the radii
    i,                   \* points processed so far
    results,             \* the list results
    locals,              \* denom and numerator of each processed point
    response,            \* the value returned, parsed
    file,                \* what is at file_path
    memo                 \* an earlier invocation: its inputs and its response

\* the SSE server (sse_server.py)
VARIABLES
    serving,             \* "up", or "down" once lifespan has cleared clients
    clients,             \* the keys of the dict clients
    queue,               \* the list "queue" created for each connection
    gen,                 \* where each sse_generator is suspended
    yielded,             \* what each stream has yielded
    appended,            \* the messages /mcp_call appended for each client
    requests             \* the requests to /mcp_call and their answers

\* GeoMCPServer (tools/registration.py)
VARIABLES
    registered_tools,    \* the keys of self.registered_tools
    mcp_tools,           \* the names registered with self.mcp
    scan                 \* auto_register_from_module: its position and locals

\* calculate_geodesic_distance (core/geo_distance.py)
VARIABLES
    geo                  \* a call: its position, its input and what came of it

analysisVars ==
    << pc, file, memo, entry, supplied, arg, df, distance_arr,
       distance_threshold, dists, wij, sum_wij, stats, used_distance, policy,
       compared, i, results, locals, response >>

serverVars == << serving, clients, queue, gen, yielded, appended, requests >>

toolVars == << registered_tools, mcp_tools, scan >>

geoVars == << geo >>

\* the state outside the analysis function
restVars == << serverVars, toolVars, geoVars >>

vars == << analysisVars, restVars >>

\* ------------------------------------------------------- the SSE server
\* Connections are numbered in the order they are opened (each gets a fresh
\* uuid4), requests in the order they arrive.
ClientIds == 1..MaxClients

CallIds == 1..MaxCalls

\* the "function" of a request: absent, a function that returns without
\* suspending, and one that awaits the network
FunctionNames ==
    {"", "hotspot_analysis_getis_ord_gi_star", "geocode_address"}

\* execute_mcp_function awaits an HTTP exchange for these
Suspends(function) ==
    function \in {"search_nearby_poi", "geocode_address",
                  "calculate_route_distance"}

\* the "client_id" of a request: absent, the id of a connection, or an id
\* the server never gave out
ClientArgs == {None} \cup {Some(c) : c \in 1..(MaxClients + 1)}

\* format_mcp_message("result", {"function": ..., "result": ...}) for the
\* result of request k
ResultMessage(k, function) == [event |-> "result", call |-> k, function |-> function]

NoRequest ==
    [state |-> "none", function |-> "", client |-> None, validated |-> FALSE,
     executed |-> FALSE, code |-> 0, status |-> "", queued |-> FALSE]

NoEvents == [first |-> "none", results |-> << >>, beat |-> "none"]

InitServer ==
    /\ serving = "up"
    /\ clients = {}
    /\ queue = [c \in ClientIds |-> << >>]
    /\ gen = [c \in ClientIds |-> "none"]
    /\ yielded = [c \in ClientIds |-> NoEvents]
    /\ appended = [c \in ClientIds |-> << >>]
    /\ requests = [k \in CallIds |-> NoRequest]

\* ------------------------------------------------- tool registration
\* the names a module can bind, in alphabetical order
NameOrder == <<"distance", "hotspot", "table">>

ToolNames == {NameOrder[r] : r \in 1..Len(NameOrder)}

Rank(name) == CHOOSE r \in 1..Len(NameOrder) : NameOrder[r] = name

\* A member of a module as inspect.getmembers lists it: the name it is bound
\* to, the __name__ of the object, whether the object is a public function
\* defined in the module, and whether self.mcp.tool()(func) raises for it.
Members ==
    [name : ToolNames, own : ToolNames, eligible : BOOLEAN, raises : BOOLEAN]

\* getmembers returns the members sorted by name, each name once
Modules ==
    UNION { { ms \in [1..n -> Members] :
                \A a, b \in 1..n :
                   a < b => Rank(ms[a].name) < Rank(ms[b].name) }
            : n \in 0..MaxFunctions }

NoScan ==
    [pc |-> "idle", members |-> << >>, at |-> 0, registered |-> << >>,
     returned |-> << >>]

InitTools ==
    /\ registered_tools = {}
    /\ mcp_tools = {}
    /\ scan = NoScan

\* ------------------------------------------- calculate_geodesic_distance
\* What a coordinate is written as: a number of degrees, or a text that is
\* no number.  91 is no latitude.
Tokens == {Number(45), Number(91), Text("north")}

\* the lists of 1..n tokens
Pieces(n) == UNION { [1..k -> Tokens] : k \in 1..n }

\* a value of the JSON object: none under the key, a value that is no list,
\* or a list of tokens
Absent == [kind |-> "absent", items |-> << >>]

Scalar == [kind |-> "scalar", items |-> << >>]

List(items) == [kind |-> "list", items |-> items]

\* An input that starts with "{" and ends with "}": whether json.loads
\* accepts it, and what the object holds under "point1" and "point2".
JsonInput(valid, point1, point2) ==
    [braced |-> TRUE, valid |-> valid, point1 |-> point1, point2 |-> point2,
     parts |-> << >>]

\* Any other input: the pieces split(',') gives, each as the pieces
\* split('_') gives.
SimpleInput(parts) ==
    [braced |-> FALSE, valid |-> FALSE, point1 |-> Absent, point2 |-> Absent,
     parts |-> parts]

\* what a call comes to: a JSON text with a status, or an exception
Success(distance) == [status |-> "success", distance |-> distance]

Fails == [status |-> "failure", distance |-> << >>]

Raises == [status |-> "raised", distance |-> << >>]

\* geodesic(point1, point2) of geopy: it raises for a coordinate that is no
\* number and for a latitude outside [-90, 90]; otherwise the distance is a
\* function of the four numbers, kept as such.
Geodesic(point1, point2) ==
    IF \/ \E t \in {point1[1], point1[2], point2[1], point2[2]} : t.kind # "number"
       \/ Abs(point1[1].v) > 90
       \/ Abs(point2[1].v) > 90
    THEN Raises
    ELSE Success(<<point1[1].v, point1[2].v, point2[1].v, point2[2].v>>)

\* the branch for JSON: only json.JSONDecodeError is caught
JsonBranch(input) ==
    IF ~input.valid THEN Fails
    ELSE IF input.point1.kind = "absent" \/ input.point2.kind = "absent" THEN Fails
    ELSE IF \/ input.point1.kind # "list" \/ Len(input.point1.items) # 2
            \/ input.point2.kind # "list" \/ Len(input.point2.items) # 2
    THEN Fails
    ELSE Geodesic(input.point1.items, input.point2.items)

\* "lat, lon = part.split('_')" and float() of both raise no ValueError
Parses(part) == Len(part) = 2 /\ \A k \in 1..2 : part[k].kind = "number"

\* the branch for the simplified format: every exception is caught
SimpleBranch(input) ==
    IF Len(input.parts) # 2 THEN Fails
    ELSE IF ~Parses(input.parts[1]) THEN Fails
    ELSE IF ~Parses(input.parts[2]) THEN Fails
    ELSE IF Geodesic(input.parts[1], input.parts[2]) = Raises THEN Fails
    ELSE Geodesic(input.parts[1], input.parts[2])

CalculateGeodesicDistance(input) ==
    IF input.braced THEN JsonBranch(input) ELSE SimpleBranch(input)

NoCall == [pc |-> "idle", input |-> SimpleInput(<< >>), outcome |-> Fails]

InitGeo == geo = NoCall

Init ==
    /\ pc = "idle"
    /\ entry = ""
    /\ supplied = FALSE
    /\ arg = None
    /\ df = NoFrame
    /\ distance_arr = << >>
    /\ distance_threshold = None
    /\ dists = << >>
    /\ wij = << >>
    /\ sum_wij = << >>
    /\ stats = NoStats
    /\ used_distance = Text("")
    /\ policy = ""
    /\ compared = NoComparison
    /\ i = 0
    /\ results = << >>
    /\ locals = << >>
    /\ response = NoResponse
    /\ file = NoFile
    /\ memo = NoMemo
    /\ InitServer
    /\ InitTools
    /\ InitGeo

\* An invocation that returns a failure before it reads the numbers: the file
\* does not exist, has no supported extension, or lacks a required column.
CallRejected(e, sup, a, f) ==
    /\ pc = "idle"
    /\ Rejection(f) # ""
    /\ pc' = "done"
    /\ file' = f
    /\ entry' = e
    /\ supplied' = sup
    /\ arg' = a
    /\ distance_threshold' = ArgumentReceived(e, sup, a)
    /\ response' = Failure(Rejection(f))
    /\ UNCHANGED << memo, df, distance_arr, dists, wij, sum_wij, stats,
                    used_distance, policy, compared, i, results, locals >>
    /\ UNCHANGED restVars

\* An invocation whose table has the required columns and raises before the
\* weights are built: a cell that is no number raises in astype(float) or
\* np.radians, a table without rows raises in haversine_distances (which
\* accepts no array of 0 samples).  The except clause returns.
CallRaised(e, sup, a, f) ==
    /\ pc = "idle"
    /\ Rejection(f) = ""
    /\ ~f.numeric \/ f.empty
    /\ pc' = "done"
    /\ file' = f
    /\ entry' = e
    /\ supplied' = sup
    /\ arg' = a
    /\ distance_threshold' = ArgumentReceived(e, sup, a)
    /\ response' = ExceptResponse(IF f.numeric THEN "0 samples"
                                  ELSE "could not convert to float")
    /\ UNCHANGED << memo, df, distance_arr, dists, wij, sum_wij, stats,
                    used_distance, policy, compared, i, results, locals >>
    /\ UNCHANGED restVars

\* An invocation on a table: everything up to the loop over the points.
\* column is the content of the "distance" column, read in the per-point
\* branch only.
CallAnalysis(e, sup, a, frame, column) ==
    /\ pc = "idle"
    /\ LET received == ArgumentReceived(e, sup, a)
           d == HaversineDistances(frame)
           w == FillDiagonal(RawWeights(received, frame, d, column), frame.n)
       IN /\ df' = frame
          /\ distance_arr' = IF UseVariable(received, frame) THEN column ELSE << >>
          /\ dists' = d
          /\ wij' = w
          /\ sum_wij' = RowSums(w, frame.n)
          /\ stats' = GlobalStats(frame)
          /\ policy' = IF UseVariable(received, frame) THEN "variable" ELSE "fixed"
          /\ compared' = IF UseVariable(received, frame)
                         THEN [scalar |-> None, radii |-> column]
                         ELSE [scalar |-> FixedThreshold(received), radii |-> << >>]
          /\ distance_threshold' = LocalThresholdAtReturn(received, frame)
          \* the core assigns used_distance here; the client forms the same
          \* value in its return statement from the local distance_threshold,
          \* which the loop does not assign
          /\ used_distance' = UsedDistance(Impl(e), received, frame)
    /\ pc' = "loop"
    /\ file' = FileOf(frame)
    /\ entry' = e
    /\ supplied' = sup
    /\ arg' = a
    /\ i' = 0
    /\ results' = NewResults(results)
    /\ UNCHANGED memo
    /\ locals' = << >>
    /\ response' = NoResponse
    /\ UNCHANGED restVars

\* One iteration of "for i in range(n)".
LoopStep ==
    /\ pc = "loop"
    /\ i < df.n
    /\ LET step == PointStep(df, stats, wij, sum_wij, i + 1)
       IN /\ results' = Append(results, step.result)
          /\ locals' = Append(locals, step.local)
    /\ i' = i + 1
    /\ UNCHANGED << pc, file, memo, entry, supplied, arg, df, distance_arr,
                    distance_threshold, dists, wij, sum_wij, stats,
                    used_distance, policy, compared, response >>
    /\ UNCHANGED restVars

\* The return statement after the loop.
Return ==
    /\ pc = "loop"
    /\ i = df.n
    /\ pc' = "done"
    /\ response' = [status |-> "success",
                    count |-> df.n,
                    distance_threshold |-> used_distance,
                    results |-> results]
    /\ UNCHANGED << file, memo, entry, supplied, arg, df, distance_arr,
                    distance_threshold, dists, wij, sum_wij, stats,
                    used_distance, policy, compared, i, results, locals >>
    /\ UNCHANGED restVars

\* The invocation is over; the next one starts from nothing.
Reset ==
    /\ pc = "done"
    /\ pc' = "idle"
    /\ file' = NoFile
    /\ UNCHANGED memo
    /\ entry' = ""
    /\ supplied' = FALSE
    /\ arg' = None
    /\ df' = NoFrame
    /\ distance_arr' = << >>
    /\ distance_threshold' = None
    /\ dists' = << >>
    /\ wij' = << >>
    /\ sum_wij' = << >>
    /\ stats' = NoStats
    /\ used_distance' = Text("")
    /\ policy' = ""
    /\ compared' = NoComparison
    /\ i' = 0
    /\ results' = << >>
    /\ locals' = << >>
    /\ response' = NoResponse
    /\ UNCHANGED restVars

\* what a caller can pass: nothing, or None, or a scalar
Passed == {<<FALSE, None>>} \cup {<<TRUE, a>> : a \in ThresholdArgs}

\* an invocation arrives while none is running
Call ==
    /\ pc = "idle"
    /\ \E e \in Entries, p \in Passed :
          \/ \E f \in FailingFiles :
                \/ CallRejected(e, p[1], p[2], f)
                \/ CallRaised(e, p[1], p[2], f)
          \/ \E frame \in Frames :
                IF UseVariable(ArgumentReceived(e, p[1], p[2]), frame)
                THEN \E column \in DistanceColumns(frame) :
                        CallAnalysis(e, p[1], p[2], frame, column)
                ELSE CallAnalysis(e, p[1], p[2], frame, << >>)

Next ==
    \/ Call
    \/ LoopStep
    \/ Return
    \/ Reset

Spec == Init /\ [][Next]_vars

\* ------------------------------------------------ exceptions in the loop
\* A statement of the loop, or the return statement after it, raises (the
\* machine runs out of memory, say); the except clause returns.  The list
\* results keeps what was appended.
LoopRaise ==
    /\ pc = "loop"
    /\ pc' = "done"
    /\ response' = ExceptResponse("raised in the loop")
    /\ UNCHANGED << file, memo, entry, supplied, arg, df, distance_arr,
                    distance_threshold, dists, wij, sum_wij, stats,
                    used_distance, policy, compared, i, results, locals >>
    /\ UNCHANGED restVars

\* an invocation on a file that fails, or on a table without a "distance"
\* column
CallFault ==
    /\ pc = "idle"
    /\ \E e \in Entries, p \in Passed :
          \/ \E f \in FailingFiles :
                \/ CallRejected(e, p[1], p[2], f)
                \/ CallRaised(e, p[1], p[2], f)
          \/ \E frame \in {fr \in Frames : ~fr.hasDistance} :
                CallAnalysis(e, p[1], p[2], frame, << >>)

NextFault ==
    \/ CallFault
    \/ LoopStep
    \/ LoopRaise
    \/ Return
    \/ Reset

SpecFault == Init /\ [][NextFault]_vars

\* ------------------------------------------------ tables of equal values
\* the decimal fractions 0.1, 0.2 and 0.5 in tenths
Tenths == {1, 2, 5}

\* tables of 2 to 5 rows whose value column holds one value in every row: a
\* whole number, or one of the decimal fractions
UniformFrames ==
    { fr \in Frames :
         fr.n >= 2 /\ \A a, b \in 1..fr.n : fr.val[a] = fr.val[b] }
    \cup
    { [fr EXCEPT !.val = [k \in 1..fr.n |-> t], !.places = 1] :
         fr \in {f \in Frames : f.n >= 2 /\ f.n <= 5}, t \in Tenths }

\* an invocation on such a table
CallUniform ==
    /\ pc = "idle"
    /\ \E e \in Entries, p \in Passed, frame \in UniformFrames :
          IF UseVariable(ArgumentReceived(e, p[1], p[2]), frame)
          THEN \E column \in DistanceColumns(frame) :
                  CallAnalysis(e, p[1], p[2], frame, column)
          ELSE CallAnalysis(e, p[1], p[2], frame, << >>)

NextUniform ==
    \/ CallUniform
    \/ LoopStep
    \/ Return
    \/ Reset

SpecUniform == Init /\ [][NextUniform]_vars

\* ------------------------------------------------ repeated invocations
\* Invocations follow one another and the values an invocation left in its
\* locals stay where they are until a later invocation assigns them; memo
\* keeps the inputs and the response of one finished invocation.
RepeatFrames ==
    { [n |-> 2, lat |-> <<0, l>>, lon |-> <<0, 0>>, val |-> <<0, 1>>,
       places |-> 0, hasDistance |-> has] :
         l \in {0, 1500}, has \in BOOLEAN }

RepeatColumns == { <<r, 0>> : r \in {0, 1500} }

RepeatPassed == {<<FALSE, None>>, <<TRUE, None>>, <<TRUE, Some(0)>>}

RepeatFiles ==
    { f \in FailingFiles :
         \/ f.kind = "missing"
         \/ f.columns = {"lon", "val"}
         \/ ~f.numeric /\ f.columns = AllColumns }

\* the inputs of the invocation that is running or has just returned
Inputs ==
    [entry |-> entry, supplied |-> supplied, arg |-> arg, file |-> file,
     table |-> IF Rejection(file) = "" /\ file.numeric /\ ~file.empty
               THEN <<df, distance_arr>> ELSE << >>]

CallRepeat ==
    /\ pc = "idle"
    /\ \E e \in Entries, p \in RepeatPassed :
          \/ \E f \in RepeatFiles :
                \/ CallRejected(e, p[1], p[2], f)
                \/ CallRaised(e, p[1], p[2], f)
          \/ \E frame \in RepeatFrames :
                IF UseVariable(ArgumentReceived(e, p[1], p[2]), frame)
                THEN \E column \in RepeatColumns :
                        CallAnalysis(e, p[1], p[2], frame, column)
                ELSE CallAnalysis(e, p[1], p[2], frame, << >>)

\* the invocation that has just returned is the one to compare later ones with
Remember ==
    /\ pc = "done"
    /\ ~memo.set
    /\ memo' = [set |-> TRUE, between |-> FALSE, inputs |-> Inputs,
                response |-> response]
    /\ UNCHANGED << pc, file, entry, supplied, arg, df, distance_arr,
                    distance_threshold, dists, wij, sum_wij, stats,
                    used_distance, policy, compared, i, results, locals,
                    response >>
    /\ UNCHANGED restVars

\* The caller has its response and the next invocation can start.  Nothing
\* is cleared; memo notes that an invocation with other inputs has run.
Leave ==
    /\ pc = "done"
    /\ pc' = "idle"
    /\ memo' = IF memo.set /\ Inputs # memo.inputs
               THEN [memo EXCEPT !.between = TRUE] ELSE memo
    /\ UNCHANGED << file, entry, supplied, arg, df, distance_arr,
                    distance_threshold, dists, wij, sum_wij, stats,
                    used_distance, policy, compared, i, results, locals,
                    response >>
    /\ UNCHANGED restVars

NextRepeat ==
    \/ CallRepeat
    \/ LoopStep
    \/ Return
    \/ Remember
    \/ Leave

SpecRepeat == Init /\ [][NextRepeat]_vars

\* ------------------------------------------------------- cluster tables
\* A table of k points at one place that share the value h, followed by m
\* points with the value l, each 1500 m from the one before.
ClusterFrame(k, m, h, l, has) ==
    [n |-> k + m,
     lat |-> [a \in 1..(k + m) |-> IF a <= k THEN 0 ELSE (a - k) * 1500],
     lon |-> [a \in 1..(k + m) |-> 0],
     val |-> [a \in 1..(k + m) |-> IF a <= k THEN h ELSE l],
     places |-> 0,
     hasDistance |-> has]

\* the two values differ by one unit, in either direction
ClusterFrames ==
    { ClusterFrame(k, m, hl[1], hl[2], has) :
         k \in 2..MaxCluster, m \in 13..MaxBackground,
         hl \in {v \in Values \X Values : Abs(v[1] - v[2]) = 1},
         has \in BOOLEAN }

\* "distance" columns with one radius for the cluster and one for the rest
ClusterColumns(frame) ==
    { [a \in 1..frame.n |-> IF frame.lat[a] = 0 THEN rc ELSE rb] :
         rc \in Radii, rb \in Radii }

\* an invocation on a cluster table
CallCluster ==
    /\ pc = "idle"
    /\ \E e \in Entries, p \in Passed, frame \in ClusterFrames :
          IF UseVariable(ArgumentReceived(e, p[1], p[2]), frame)
          THEN \E column \in ClusterColumns(frame) :
                  CallAnalysis(e, p[1], p[2], frame, column)
          ELSE CallAnalysis(e, p[1], p[2], frame, << >>)

NextCluster ==
    \/ CallCluster
    \/ LoopStep
    \/ Return
    \/ Reset

SpecCluster == Init /\ [][NextCluster]_vars

\* ------------------------------------------------- tables in any row order
\* the table without a "distance" column whose n rows are the pairs
\* <<lat, val>> of rows, in that order
UnsortedFrame(n, rows) ==
    [n |-> n,
     lat |-> [k \in 1..n |-> rows[k][1]],
     lon |-> [k \in 1..n |-> 0],
     val |-> [k \in 1..n |-> rows[k][2]],
     places |-> 0,
     hasDistance |-> FALSE]

\* an invocation on such a table, with distance_threshold omitted
CallUnsorted ==
    /\ pc = "idle"
    /\ \E e \in Entries, n \in 1..MaxN :
          \E rows \in [1..n -> Positions \X Values] :
             CallAnalysis(e, FALSE, None, UnsortedFrame(n, rows), << >>)

NextOrder ==
    \/ CallUnsorted
    \/ LoopStep
    \/ Return
    \/ Reset

SpecOrder == Init /\ [][NextOrder]_vars

\* ------------------------------------------------ SSE streams (sse_server)
\* GET /sse: a fresh client_id gets an entry with an empty queue, and the
\* generator of its stream is created (it runs when the response is sent).
SseEndpoint(c) ==
    /\ serving = "up"
    /\ gen[c] = "none"
    /\ \A b \in ClientIds : b < c => gen[b] # "none"
    /\ clients' = clients \cup {c}
    /\ queue' = [queue EXCEPT ![c] = << >>]
    /\ gen' = [gen EXCEPT ![c] = "new"]
    /\ UNCHANGED << serving, yielded, appended, requests,
                    analysisVars, toolVars, geoVars >>

\* the event a stream yields is its first when none came before
FirstOf(events, event) == IF events.first = "none" THEN event ELSE events.first

\* variant: the test of the loop passes for every client_id
RegisteredAlways(c, registered) == TRUE

\* "client_id not in clients" is false
Registered(c, registered) == c \in registered

\* variant: the message at the end of the list is taken
PopLast(q) == <<q[Len(q)], SubSeq(q, 1, Len(q) - 1)>>

\* messages_queue.pop(0): the message taken and the list left
Pop(q) == <<Head(q), Tail(q)>>

\* "not messages_queue"
QueueIsEmpty(q) == q = << >>

\* yield format_mcp_message("connection", ...): the generator's first step
GeneratorStart(c) ==
    /\ gen[c] = "new"
    /\ gen' = [gen EXCEPT ![c] = "connected"]
    /\ yielded' = [yielded EXCEPT ![c].first = FirstOf(yielded[c], "connection")]
    /\ UNCHANGED << serving, clients, queue, appended, requests,
                    analysisVars, toolVars, geoVars >>

\* "if not messages_queue" found the list empty: the heartbeat is yielded.
\* beat records whether the list held a message at that moment.
Heartbeat(c) ==
    /\ gen' = [gen EXCEPT ![c] = "beat"]
    /\ yielded' = [yielded EXCEPT
                     ![c].first = FirstOf(yielded[c], "heartbeat"),
                     ![c].beat = IF queue[c] = << >> THEN "empty" ELSE "pending"]
    /\ UNCHANGED queue

\* One pass from "while True" to the next yield or to the break: the
\* membership test, then the message at the head of the list if there is
\* one, else the heartbeat.
LoopTop(c) ==
    IF ~Registered(c, clients)
    THEN /\ gen' = [gen EXCEPT ![c] = "closed"]
         /\ UNCHANGED << queue, yielded >>
    ELSE IF queue[c] # << >>
    THEN /\ gen' = [gen EXCEPT ![c] = "yielded"]
         /\ queue' = [queue EXCEPT ![c] = Pop(queue[c])[2]]
         /\ yielded' = [yielded EXCEPT
                          ![c].first = FirstOf(yielded[c], "result"),
                          ![c].results = Append(@, Pop(queue[c])[1])]
    ELSE Heartbeat(c)

\* the generator is resumed after the connection event or after the sleep
GeneratorLoop(c) ==
    /\ gen[c] \in {"connected", "sleep"}
    /\ LoopTop(c)
    /\ UNCHANGED << serving, clients, appended, requests,
                    analysisVars, toolVars, geoVars >>

\* the generator is resumed after it yielded a message: the heartbeat when
\* the list is empty now, else the next pass of the loop
GeneratorAfterMessage(c) ==
    /\ gen[c] = "yielded"
    /\ IF QueueIsEmpty(queue[c]) THEN Heartbeat(c) ELSE LoopTop(c)
    /\ UNCHANGED << serving, clients, appended, requests,
                    analysisVars, toolVars, geoVars >>

\* the generator is resumed after the heartbeat: await asyncio.sleep(5)
GeneratorSleep(c) ==
    /\ gen[c] = "beat"
    /\ gen' = [gen EXCEPT ![c] = "sleep"]
    /\ UNCHANGED << serving, clients, queue, yielded, appended, requests,
                    analysisVars, toolVars, geoVars >>

\* the generator of client c can take a step
Running(c) == gen[c] \in {"new", "connected", "yielded", "beat", "sleep"}

\* The client goes away: the server stops iterating the generator.  The
\* entry in clients and its list stay.
Abandon(c) ==
    /\ Running(c)
    /\ gen' = [gen EXCEPT ![c] = "abandoned"]
    /\ UNCHANGED << serving, clients, queue, yielded, appended, requests,
                    analysisVars, toolVars, geoVars >>

\* -------------------------------------------------- POST /mcp_call
\* "except Exception as e: raise HTTPException(status_code=500, ...)": the
\* status the request is answered with when the try block raised, whatever
\* it raised (HTTPException is an Exception)
ExceptClause(statusCode) == 500

\* the answer of a request whose try block raised
Refused(r, statusCode) ==
    [r EXCEPT !.state = "answered", !.code = ExceptClause(statusCode)]

\* clients[client_id]["queue"].append(message)
AppendMessage(q, message) == Append(q, message)

\* The function has returned its result: with a client_id the result is
\* appended to the client's list (KeyError when the entry is gone), without
\* one it is the answer.
Deliver(k, r) ==
    IF r.client.isNone
    THEN /\ requests' = [requests EXCEPT ![k] =
                            [r EXCEPT !.state = "answered", !.executed = TRUE,
                                      !.code = 200, !.status = "success"]]
         /\ UNCHANGED << queue, appended >>
    ELSE IF r.client.v \in clients
    THEN /\ queue' = [queue EXCEPT ![r.client.v] =
                         AppendMessage(@, ResultMessage(k, r.function))]
         /\ appended' = [appended EXCEPT ![r.client.v] =
                            Append(@, ResultMessage(k, r.function))]
         /\ requests' = [requests EXCEPT ![k] =
                            [r EXCEPT !.state = "answered", !.executed = TRUE,
                                      !.code = 200, !.status = "success",
                                      !.queued = TRUE]]
    ELSE /\ requests' = [requests EXCEPT ![k] =
                            Refused([r EXCEPT !.executed = TRUE], 500)]
         /\ UNCHANGED << queue, appended >>

\* A request arrives and runs to its first suspension or to its answer: the
\* two checks, then execute_mcp_function.
McpCall(k, function, client) ==
    /\ serving = "up"
    /\ requests[k].state = "none"
    /\ \A j \in CallIds : j < k => requests[j].state # "none"
    /\ LET r == [NoRequest EXCEPT !.function = function, !.client = client]
       IN IF function = ""
          THEN /\ requests' = [requests EXCEPT ![k] = Refused(r, 400)]
               /\ UNCHANGED << queue, appended >>
          ELSE IF ~client.isNone /\ client.v \notin clients
          THEN /\ requests' = [requests EXCEPT ![k] = Refused(r, 404)]
               /\ UNCHANGED << queue, appended >>
          ELSE IF Suspends(function)
          THEN /\ requests' = [requests EXCEPT ![k] =
                                  [r EXCEPT !.state = "awaiting",
                                            !.validated = ~client.isNone]]
               /\ UNCHANGED << queue, appended >>
          ELSE Deliver(k, [r EXCEPT !.validated = ~client.isNone])
    /\ UNCHANGED << serving, clients, gen, yielded,
                    analysisVars, toolVars, geoVars >>

\* the awaited function returns and the request runs to its answer
McpCallReturn(k) ==
    /\ requests[k].state = "awaiting"
    /\ Deliver(k, requests[k])
    /\ UNCHANGED << serving, clients, gen, yielded,
                    analysisVars, toolVars, geoVars >>

\* lifespan after its yield: clients.clear().  The lists and the generators
\* and requests under way are not touched.
Shutdown ==
    /\ serving = "up"
    /\ serving' = "down"
    /\ clients' = {}
    /\ UNCHANGED << queue, gen, yielded, appended, requests,
                    analysisVars, toolVars, geoVars >>

GeneratorStep(c) ==
    \/ GeneratorStart(c)
    \/ GeneratorLoop(c)
    \/ GeneratorAfterMessage(c)
    \/ GeneratorSleep(c)

NextServer ==
    \/ \E c \in ClientIds : SseEndpoint(c)
    \/ \E c \in ClientIds : GeneratorStep(c)
    \/ \E c \in ClientIds : Abandon(c)
    \/ \E k \in CallIds, function \in FunctionNames, client \in ClientArgs :
          McpCall(k, function, client)
    \/ \E k \in CallIds : McpCallReturn(k)
    \/ Shutdown

SpecServer == Init /\ [][NextServer]_vars

\* a request that names a function and a registered client
McpCallQueued ==
    \E k \in CallIds, function \in FunctionNames \ {""}, c \in clients :
       McpCall(k, function, Some(c))

NextStreams ==
    \/ \E c \in ClientIds : SseEndpoint(c)
    \/ \E c \in ClientIds : GeneratorStep(c)
    \/ \E c \in ClientIds : Abandon(c)
    \/ McpCallQueued
    \/ \E k \in CallIds : McpCallReturn(k)
    \/ Shutdown

\* Streams that are read are resumed: the response task iterates the
\* generator while the client is there, and the sleep of 5 s ends.
SpecStreams ==
    /\ Init
    /\ [][NextStreams]_vars
    /\ \A c \in ClientIds : WF_vars(GeneratorStep(c))

\* ------------------------------------ GeoMCPServer (tools/registration.py)
\* register_tool(func): the keys of registered_tools afterwards.  The key is
\* added after self.mcp.tool()(func) returned; an exception is logged and
\* func is returned all the same.
RegisterTool(keys, func) == IF func.raises THEN keys ELSE keys \cup {func.own}

\* the names registered with FastMCP afterwards
McpTool(names, func) == IF func.raises THEN names ELSE names \cup {func.own}

\* "inspect.isfunction(obj) and not name.startswith('_') and
\* obj.__module__ == module_path"
Eligible(member) == member.eligible

\* the list registered after the pass of the loop for member
Reported(registered, member) ==
    IF Eligible(member) THEN Append(registered, member.name) ELSE registered

\* auto_register_from_module(module_path): the module is imported and its
\* members are listed
AutoRegisterBegin(ms) ==
    /\ scan.pc = "idle"
    /\ scan' = [NoScan EXCEPT !.pc = "loop", !.members = ms]
    /\ UNCHANGED << registered_tools, mcp_tools, analysisVars, serverVars, geoVars >>

\* importlib.import_module raises: the except clause returns []
AutoRegisterImportFails ==
    /\ scan.pc = "idle"
    /\ scan' = [NoScan EXCEPT !.pc = "done"]
    /\ UNCHANGED << registered_tools, mcp_tools, analysisVars, serverVars, geoVars >>

\* one pass of "for name, obj in inspect.getmembers(module)"
AutoRegisterStep ==
    /\ scan.pc = "loop"
    /\ scan.at < Len(scan.members)
    /\ LET member == scan.members[scan.at + 1]
       IN /\ registered_tools' = IF Eligible(member)
                                 THEN RegisterTool(registered_tools, member)
                                 ELSE registered_tools
          /\ mcp_tools' = IF Eligible(member) THEN McpTool(mcp_tools, member)
                          ELSE mcp_tools
          /\ scan' = [scan EXCEPT !.at = @ + 1,
                                  !.registered = Reported(@, member)]
    /\ UNCHANGED << analysisVars, serverVars, geoVars >>

\* return registered
AutoRegisterReturn ==
    /\ scan.pc = "loop"
    /\ scan.at = Len(scan.members)
    /\ scan' = [scan EXCEPT !.pc = "done", !.returned = scan.registered]
    /\ UNCHANGED << registered_tools, mcp_tools, analysisVars, serverVars, geoVars >>

\* the caller has the list; the server object lives on
AutoRegisterLeave ==
    /\ scan.pc = "done"
    /\ scan' = NoScan
    /\ UNCHANGED << registered_tools, mcp_tools, analysisVars, serverVars, geoVars >>

\* register_tool called on a function directly
RegisterDirect(func) ==
    /\ scan.pc = "idle"
    /\ registered_tools' = RegisterTool(registered_tools, func)
    /\ mcp_tools' = McpTool(mcp_tools, func)
    /\ UNCHANGED << scan, analysisVars, serverVars, geoVars >>

NextTools ==
    \/ \E ms \in Modules : AutoRegisterBegin(ms)
    \/ AutoRegisterImportFails
    \/ AutoRegisterStep
    \/ AutoRegisterReturn
    \/ AutoRegisterLeave
    \/ \E func \in Members : RegisterDirect(func)

SpecTools == Init /\ [][NextTools]_vars

\* --------------------------------- calls of calculate_geodesic_distance
GeoCall(input) ==
    /\ geo.pc = "idle"
    /\ geo' = [pc |-> "done", input |-> input,
               outcome |-> CalculateGeodesicDistance(input)]
    /\ UNCHANGED << analysisVars, serverVars, toolVars >>

\* a call with an input in braces
GeoCallJson ==
    \/ GeoCall(JsonInput(FALSE, Absent, Absent))
    \/ \E point1, point2 \in {Absent, Scalar} \cup {List(p) : p \in Pieces(MaxFields)} :
          GeoCall(JsonInput(TRUE, point1, point2))

\* a call with any other input
GeoCallSimple ==
    \E n \in 1..MaxFields :
       \E parts \in [1..n -> Pieces(MaxFields)] : GeoCall(SimpleInput(parts))

GeoLeave ==
    /\ geo.pc = "done"
    /\ geo' = NoCall
    /\ UNCHANGED << analysisVars, serverVars, toolVars >>

NextGeo ==
    \/ GeoCallJson
    \/ GeoCallSimple
    \/ GeoLeave

SpecGeo == Init /\ [][NextGeo]_vars

\* ------------------------------------------------------- shared notions
\* the invocation has read its table and built its matrices
Analysing == pc \in {"loop", "done"} /\ df.n > 0

\* the invocation returned the success response
Succeeded == pc = "done" /\ response.status = "success"

\* the value of distance_threshold the function was entered with
Received == ArgumentReceived(entry, supplied, arg)

Points == 1..df.n

Processed == 1..Len(results)

\* denom of point k evaluated to 0
DenomIsZero(k) == FloatEq(locals[k].denom, Zero)

\* p_value == 1
PIsOne(pv) == pv.kind = "num" /\ pv.units = PScale

\* dists[a][a] passes the comparison the weight matrix was built with
DiagonalPasses(a) ==
    IF policy = "variable" THEN dists[a][a] <= distance_arr[a]
    ELSE dists[a][a] <= compared.scalar.v

\* ------------------------------------------------------------------ C1
\* C1: every processed point whose denom evaluated to 0 carries gi_star = 0,
\* z_score = 0 and p_value = 1 and was not divided by denom, and an
\* invocation that processed such points ends with the success response
\* holding exactly the results of the loop.
C1_EdgeCase ==
    /\ \A k \in Processed :
          DenomIsZero(k) =>
             /\ results[k].gi_star = Zero
             /\ results[k].z_score = Zero
             /\ PIsOne(results[k].p_value)
             /\ ~locals[k].divided
    /\ (pc = "done" /\ df.n > 0) =>
          /\ response.status = "success"
          /\ response.results = results
          /\ Len(results) = df.n

\* a finished analysis one of whose points has denom 0 although the values
\* differ (the point has no neighbour)
C1_Witness ==
    /\ Succeeded
    /\ stats.sVar > 0
    /\ \E k \in Processed : DenomIsZero(k) /\ sum_wij[k] = 0

C3_PolicySelection ==
    Analysing =>
       IF (~supplied \/ arg.isNone) /\ df.hasDistance
       THEN policy = "variable"
       ELSE policy = "fixed"

\* ------------------------------------------------------------------ C4
\* C4: in a success response distance_threshold is a number equal to the
\* scalar dists was compared with when the fixed branch built wij, and it is
\* the text sentinel if and only if the per-point radii built wij.
C4_EchoedPolicy ==
    Succeeded =>
       /\ policy = "fixed" =>
             /\ response.distance_threshold.kind = "number"
             /\ response.distance_threshold.v = compared.scalar.v
             /\ wij = [a \in Points |-> [b \in Points |->
                         IF a # b /\ dists[a][b] <= response.distance_threshold.v
                         THEN 1 ELSE 0]]
       /\ response.distance_threshold.kind = "text" <=> policy = "variable"
       /\ policy = "variable" =>
             wij = [a \in Points |-> [b \in Points |->
                      IF a # b /\ dists[a][b] <= distance_arr[a] THEN 1 ELSE 0]]

\* the client implementation echoing a supplied scalar for a table that also
\* has a "distance" column
C4_Witness ==
    /\ Succeeded
    /\ entry = "client_tool"
    /\ df.hasDistance
    /\ supplied
    /\ ~arg.isNone
    /\ response.distance_threshold = Number(arg.v)

\* ------------------------------------------------------------------ C5
\* C5: entered with distance_threshold None on a table without a "distance"
\* column, the analysis compares with 1000, does not fail and echoes 1000.
C5_DefaultFallback ==
    (Analysing /\ Received.isNone /\ ~df.hasDistance) =>
       /\ policy = "fixed"
       /\ compared.scalar = Some(DefaultThreshold)
       /\ wij = [a \in Points |-> [b \in Points |->
                   IF a # b /\ dists[a][b] <= DefaultThreshold THEN 1 ELSE 0]]
       /\ pc = "done" =>
             /\ response.status = "success"
             /\ response.distance_threshold = Number(DefaultThreshold)

\* the fallback taken by the core implementation, with a pair of points inside
\* the default radius and a pair outside it
C5_Witness ==
    /\ Succeeded
    /\ entry = "core_direct"
    /\ Received.isNone
    /\ ~df.hasDistance
    /\ \E a, b \in Points : a # b /\ wij[a][b] = 1
    /\ \E a, b \in Points : wij[a][b] = 0 /\ dists[a][b] > DefaultThreshold

\* ------------------------------------------------------------------ C6
\* C6: the weight matrix used for the statistic has a zero diagonal under
\* both policies, whatever the threshold.
C6_SelfExclusion ==
    Analysing => \A a \in Points : wij[a][a] = 0

\* the per-point policy with a radius that admits the point itself
C6_Witness ==
    /\ Analysing
    /\ policy = "variable"
    /\ \E a \in Points : DiagonalPasses(a) /\ wij[a][a] = 0

\* ------------------------------------------------------------------ C7
\* C7: under the fixed policy the weight matrix is symmetric.
C7_FixedSymmetry ==
    (Analysing /\ policy = "fixed") =>
       \A a, b \in Points : wij[a][b] = wij[b][a]

\* a fixed-policy matrix with a pair of neighbours and a pair of strangers
C7_Witness ==
    /\ Analysing
    /\ policy = "fixed"
    /\ \E a, b \in Points : a # b /\ wij[a][b] = 1 /\ wij[b][a] = 1
    /\ \E a, b \in Points : a # b /\ wij[a][b] = 0 /\ wij[b][a] = 0

\* ------------------------------------------------------------------ C8
\* C8: under the variable policy, for a # b, wij[a][b] = 1 exactly when
\* dists[a][b] <= the radius of row a; so wij[a][b] = 1 and wij[b][a] = 0
\* whenever radius_b < dists[a][b] <= radius_a.
C8_RowRadius ==
    (Analysing /\ policy = "variable") =>
       \A a, b \in Points :
          a # b =>
             /\ wij[a][b] = 1 <=> dists[a][b] <= distance_arr[a]
             /\ (distance_arr[b] < dists[a][b] /\ dists[a][b] <= distance_arr[a])
                   => (wij[a][b] = 1 /\ wij[b][a] = 0)

\* an asymmetric pair
C8_Witness ==
    /\ Analysing
    /\ policy = "variable"
    /\ \E a, b \in Points :
          /\ distance_arr[b] < dists[a][b]
          /\ dists[a][b] <= distance_arr[a]
          /\ wij[a][b] = 1
          /\ wij[b][a] = 0

\* ------------------------------------------------------------------ C9
\* C9: the neighbour count of every result is the number of ones in its row
\* of the final weight matrix, hence between 0 and n - 1 and without the
\* point itself.
C9_NeighborCount ==
    \A k \in Processed :
       /\ results[k].neighbors = Cardinality({b \in Points : wij[k][b] = 1})
       /\ results[k].neighbors \in 0..(df.n - 1)
       /\ wij[k][k] = 0

\* a finished analysis with a point that neighbours every other point and
\* would have counted itself, and whose row and column sums differ
C9_Witness ==
    /\ Succeeded
    /\ df.n > 1
    /\ \E k \in Processed :
          /\ results[k].neighbors = df.n - 1
          /\ DiagonalPasses(k)
          /\ Cardinality({a \in Points : wij[a][k] = 1}) # results[k].neighbors

\* ------------------------------------------------------------------ C10
\* C10: gi_star == z_score for every result, in both branches.
C10_Identity ==
    \A k \in Processed : FloatEq(results[k].gi_star, results[k].z_score)

\* ------------------------------------------------------------------ C11
\* scores around the cut-offs: 2.58 exactly, its two neighbours in units of
\* 1e-4 of the square, 0, a large score, each with both signs, and NaN
ScoreGrid ==
    {NaN} \cup
    { Root(sg, q, 10000) :
         sg \in {-1, 1}, q \in {0, 10000, 66563, 66564, 66565, 90000} }

\* hotspot iff z > 2.58, coldspot iff z < -2.58, not significant otherwise
Classified(z, label) ==
    /\ label \in {"hotspot", "coldspot", "not significant"}
    /\ label = "hotspot" <=>
          (z.kind = "num" /\ z.sgn = 1 /\ z.sqn * 10000 > 66564 * z.sqd)
    /\ label = "coldspot" <=>
          (z.kind = "num" /\ z.sgn = -1 /\ z.sqn * 10000 > 66564 * z.sqd)

\* C11: the label of every result is the one of three labels that its
\* z_score selects: hotspot iff z_score > 2.58, coldspot iff z_score < -2.58,
\* not significant otherwise (a score of exactly 2.58 or -2.58 included),
\* whatever entry point, threshold argument and policy the call used.
C11_Classification ==
    /\ \A k \in Processed : Classified(results[k].z_score, results[k].label)
    /\ \A z \in ScoreGrid : Classified(z, Label(z))

\* a finished analysis with a hotspot beside points that are not significant,
\* under the per-point policy
C11_Witness ==
    /\ Succeeded
    /\ policy = "variable"
    /\ \E k \in Processed : results[k].label = "hotspot"
    /\ \E k \in Processed : results[k].label = "not significant"

\* a finished analysis with a coldspot
C11_WitnessCold ==
    /\ Succeeded
    /\ \E k \in Processed : results[k].label = "coldspot"

\* ------------------------------------------------------------------ C12
\* C12: the p_value of every result is a number between 0 and 1, for every
\* table of n >= 1 rows, the single-row table included.
C12_PValueRange ==
    \A k \in Processed :
       /\ results[k].p_value.kind = "num"
       /\ results[k].p_value.units \in 0..PScale

\* ------------------------------------------------------------------ C13
\* C13: the k-th result (counting from 0) has index k and the latitude,
\* longitude and value of row k of the table, and the response lists the
\* results of all n rows in that order, whatever their scores and labels.
C13_OrderPreserved ==
    /\ \A k \in Processed :
          /\ results[k].index = k - 1
          /\ results[k].latitude = df.lat[k]
          /\ results[k].longitude = df.lon[k]
          /\ results[k].value = df.val[k]
    /\ Succeeded =>
          /\ Len(response.results) = df.n
          /\ \A k \in Points :
                /\ response.results[k].index = k - 1
                /\ response.results[k].latitude = df.lat[k]
                /\ response.results[k].value = df.val[k]

\* a finished analysis of a table whose rows are ordered neither by latitude
\* nor by value, and whose z_scores are ordered neither way
C13_Witness ==
    /\ Succeeded
    /\ df.n = 3
    /\ df.lat[1] > df.lat[2]
    /\ df.val[2] > df.val[3]
    /\ \E a, b \in Points :
          a < b /\ response.results[a].z_score.sgn < response.results[b].z_score.sgn
    /\ \E a, b \in Points :
          a < b /\ response.results[a].z_score.sgn > response.results[b].z_score.sgn

\* ------------------------------------------------------------------ C14
\* the file is a table whose latitude, longitude and value columns are
\* present and numeric
ValidTable == file.kind = "table" /\ HasRequired(file) /\ file.numeric

\* C14: an invocation on an existing table whose latitude, longitude and
\* value columns are present and numeric ends with the success response,
\* whose count is n and whose results has n elements.
C14_NeverRaises ==
    (pc = "done" /\ ValidTable) =>
       /\ response.status = "success"
       /\ response.count = df.n
       /\ Len(response.results) = df.n

\* ------------------------------------------------------------------ C15
\* the invocation failed at some step: the file is missing or of another
\* kind, a column is missing, a cell is no number, the table has no row, or
\* the loop did not reach its end
StepFailed ==
    \/ Rejection(file) # ""
    \/ ~file.numeric
    \/ file.empty
    \/ Len(results) < df.n

\* C15: every invocation ends with a response (no exception leaves the
\* function); when a step failed the response has status failure, and a
\* response with status failure holds a non-empty info and nothing else: no
\* results, no count, no distance_threshold, also when results had been
\* appended before the failure.
C15_NoPartialResults ==
    pc = "done" =>
       /\ response.status \in {"success", "failure"}
       /\ StepFailed => response.status = "failure"
       /\ response.status = "failure" =>
             /\ DOMAIN response = {"status", "info"}
             /\ response.info # ""

\* a failure after some but not all results were appended
C15_Witness ==
    /\ pc = "done"
    /\ response.status = "failure"
    /\ Len(results) > 0
    /\ Len(results) < df.n

\* ------------------------------------------------------------------ C16
\* C16: when the n >= 2 values of the table are all the same, pooled_std is
\* 0 and every result carries gi_star = 0, z_score = 0, p_value = 1 and the
\* label not significant, whatever the neighbours and the policy.
C16_IdenticalValues ==
    (Analysing /\ df.n >= 2 /\ \A a, b \in Points : df.val[a] = df.val[b]) =>
       /\ stats.sVar = 0
       /\ \A k \in Processed :
             /\ results[k].gi_star = Zero
             /\ results[k].z_score = Zero
             /\ PIsOne(results[k].p_value)
             /\ results[k].label = "not significant"

\* ------------------------------------------------------------------ C17
\* the other points at exactly the coordinates of point k
Coincident(k) == {b \in Points : b # k /\ dists[k][b] = 0}

\* the output of the edge case
Degenerate(r) ==
    /\ r.gi_star = Zero
    /\ r.z_score = Zero
    /\ PIsOne(r.p_value)
    /\ r.label = "not significant"

ClusterPoints == {a \in Points : sum_wij[a] > 0}

BackgroundPoints == Points \ ClusterPoints

\* two or more points that share a value and are each other's only
\* neighbours, and 14 or more points without neighbours that share a lower
\* value
ClusterScenario ==
    /\ Analysing
    /\ Cardinality(ClusterPoints) >= 2
    /\ \A a \in ClusterPoints, b \in Points :
          wij[a][b] = 1 <=> (b \in ClusterPoints /\ b # a)
    /\ \A a, b \in ClusterPoints : df.val[a] = df.val[b]
    /\ \A a, b \in BackgroundPoints : df.val[a] = df.val[b]
    /\ \A a \in ClusterPoints, b \in BackgroundPoints : df.val[b] < df.val[a]
    /\ Cardinality(BackgroundPoints) >= 14

\* C18: in the cluster scenario with a large background (14 points or more)
\* every point of the cluster has z_score > 2.58 and the label hotspot, and
\* every background point has denom 0 and the label not significant, for
\* every size of the cluster.
C18_ClusterHotspot ==
    ClusterScenario =>
       \A k \in Processed :
          IF k \in ClusterPoints
          THEN /\ FloatGt(results[k].z_score, 258)
               /\ results[k].label = "hotspot"
          ELSE /\ DenomIsZero(k)
               /\ results[k].z_score = Zero
               /\ results[k].label = "not significant"

\* a finished analysis of a cluster of three points before a background of 14
C18_Witness ==
    /\ Succeeded
    /\ ClusterScenario
    /\ Cardinality(ClusterPoints) = 3
    /\ Cardinality(BackgroundPoints) = 14
    /\ \A k \in ClusterPoints : response.results[k].label = "hotspot"

\* a cluster of two points before a background of 13: no hotspot
C18_SmallBackground ==
    /\ Succeeded
    /\ Cardinality(ClusterPoints) = 2
    /\ Cardinality(BackgroundPoints) = 13
    /\ \A a \in ClusterPoints, b \in BackgroundPoints : df.val[b] < df.val[a]
    /\ \A k \in Points : response.results[k].label = "not significant"

C20_MissingColumn ==
    (pc = "done" /\ file.kind = "table" /\ ~HasRequired(file)) =>
       /\ response.status = "failure"
       /\ \E k \in 1..Len(RequiredColumns) :
             /\ RequiredColumns[k] \notin file.columns
             /\ \A j \in 1..(k - 1) : RequiredColumns[j] \in file.columns
             /\ response.info = "missing field: " \o RequiredColumns[k]
       /\ dists = << >>
       /\ wij = << >>
       /\ sum_wij = << >>
       /\ stats = NoStats
       /\ results = << >>

\* a table that lacks the longitude and the value column but has the others:
\* the failure names the longitude
C20_Witness ==
    /\ pc = "done"
    /\ file.kind = "table"
    /\ file.columns = {"lat", "distance"}
    /\ response = Failure("missing field: lon")

\* ------------------------------------------------------------------ C21
\* two rows of the table with the same latitude and longitude
SamePlace(a, b) == df.lat[a] = df.lat[b] /\ df.lon[a] = df.lon[b]

ValueStats(values) ==
    LET count == Len(values)
        total == SumTo(values, count)
        squares == SumTo([k \in 1..count |-> values[k] * values[k]], count)
    IN [n |-> count, xj_sum |-> total, xj2_sum |-> squares,
        sVar |-> count * squares - total * total]

\* C22: the global statistics of an invocation are a function of the value
\* column alone, whatever the threshold, the policy and the coordinates are;
\* no pass of the loop changes them, and every pass computes its denom and
\* its numerator from them and the point's row of wij.
C22_GlobalStatistics ==
    [][ /\ (pc' \in {"loop", "done"} /\ df'.n > 0 /\ df'.places = 0)
             => stats' = ValueStats(df'.val)
        /\ (pc = "loop" /\ i' = i + 1) =>
             /\ stats' = stats
             /\ locals'[i'].denom
                   = Denom(stats, VarianceTerm(df.n, wij[i'], sum_wij[i']))
             /\ locals'[i'].scaledNum
                   = ScaledNumerator(stats, wij[i'], sum_wij[i'], df.val)
      ]_vars

\* all points processed under the variable policy, on a table whose values
\* differ and whose rows do not all have the same neighbours
C22_Witness ==
    /\ Analysing
    /\ policy = "variable"
    /\ df.n >= 2
    /\ Len(results) = df.n
    /\ stats.sVar > 0
    /\ \E a, b \in Points : sum_wij[a] # sum_wij[b] /\ df.lat[a] # df.lat[b]

\* ------------------------------------------------------------------ C23
\* C23: on a table of n >= 2 rows whose values are not all equal (s > 0), a
\* pass of the loop finds denom == 0 exactly when the point's neighbour count
\* is 0 or n; the count is at most n - 1, so a point that has every other
\* point as a neighbour is divided by its denom and gets a regular score.
C23_EdgeCaseCondition ==
    [][ (pc = "loop" /\ i' = i + 1 /\ df.n >= 2 /\ stats.sVar > 0) =>
          /\ FloatEq(locals'[i'].denom, Zero) <=> sum_wij[i'] \in {0, df.n}
          /\ sum_wij[i'] <= df.n - 1
          /\ sum_wij[i'] = df.n - 1 =>
                /\ ~FloatEq(locals'[i'].denom, Zero)
                /\ locals'[i'].divided
                /\ results'[i'].p_value = TwoTailed(results'[i'].z_score)
      ]_vars

\* a table of three rows or more with differing values, all processed: one
\* point counts every other point and was divided by its denom, another
\* counts none and took the edge case
C23_Witness ==
    /\ Succeeded
    /\ df.n >= 3
    /\ stats.sVar > 0
    /\ \E a, b \in Points :
          /\ sum_wij[a] = df.n - 1
          /\ locals[a].divided
          /\ ~DenomIsZero(a)
          /\ sum_wij[b] = 0
          /\ DenomIsZero(b)
          /\ ~locals[b].divided

\* ------------------------------------------------------------------ C24
\* the texts the two implementations report under the variable policy
Sentinels == {"variable (from data)", "variable"}

\* two responses that agree in status, count and results (in info, for
\* failures) and report the same distance, or each a sentinel
Equivalent(r, q) ==
    /\ r.status = q.status
    /\ r.status = "failure" => r.info = q.info
    /\ r.status = "success" =>
          /\ r.count = q.count
          /\ r.results = q.results
          /\ \/ r.distance_threshold = q.distance_threshold
             \/ /\ r.distance_threshold.kind = "text"
                /\ q.distance_threshold.kind = "text"
                /\ r.distance_threshold.text \in Sentinels
                /\ q.distance_threshold.text \in Sentinels

\* the invocation that returned and the remembered one were given the same
\* file, table and explicitly passed distance_threshold, one through the
\* core implementation and one through the client's
SameCallOtherImplementation ==
    /\ pc = "done"
    /\ memo.set
    /\ supplied
    /\ memo.inputs.supplied
    /\ arg = memo.inputs.arg
    /\ file = memo.inputs.file
    /\ Inputs.table = memo.inputs.table
    /\ Impl(entry) # Impl(memo.inputs.entry)

\* C24: the core implementation and the client implementation, given the
\* same file and the same explicitly passed distance_threshold (a number or
\* None), return equivalent responses: the same status, count and results,
\* and the same distance_threshold except for the text of the sentinel.
C24_Implementations ==
    SameCallOtherImplementation => Equivalent(response, memo.response)

\* both implementations analysed one table with None passed explicitly, under
\* the variable policy: the results agree and the sentinels differ
C24_Witness ==
    /\ SameCallOtherImplementation
    /\ Succeeded
    /\ arg = None
    /\ policy = "variable"
    /\ response.results = memo.response.results
    /\ response.distance_threshold # memo.response.distance_threshold

\* the same with a table that has no "distance" column: both report 1000.0
C24_WitnessDefault ==
    /\ SameCallOtherImplementation
    /\ Succeeded
    /\ arg = None
    /\ policy = "fixed"
    /\ response.distance_threshold = Number(DefaultThreshold)
    /\ memo.response.distance_threshold = Number(DefaultThreshold)

\* ------------------------------------------------------------------ C25
\* C25: the first event a stream yields is its connection event; the result
\* messages it has yielded, followed by those still in the client's list,
\* are the messages /mcp_call appended for the client, in the order they were
\* appended (so none is lost, doubled or out of order, whenever the appends
\* happen); and no heartbeat was yielded while the list held a message.
C25_DeliveryOrder ==
    \A c \in ClientIds :
       /\ yielded[c].first \in {"none", "connection"}
       /\ (yielded[c].results # << >> \/ yielded[c].beat # "none")
             => yielded[c].first = "connection"
       /\ yielded[c].results \o queue[c] = appended[c]
       /\ yielded[c].beat # "pending"

\* a stream that yielded its connection event, a heartbeat on an empty list
\* and then two results in the order of their appends, the second appended
\* while the generator was suspended after the first
C25_Witness ==
    \E c \in ClientIds :
       /\ yielded[c].first = "connection"
       /\ yielded[c].beat = "empty"
       /\ Len(yielded[c].results) = 2
       /\ yielded[c].results = appended[c]
       /\ yielded[c].results[1].call < yielded[c].results[2].call
       /\ requests[yielded[c].results[2].call].function = "geocode_address"

\* ------------------------------------------------------------------ C26
\* request k was answered without execute_mcp_function being called
RefusedRequest(k) == requests[k].state = "answered" /\ ~requests[k].executed

\* no list holds a message for request k
NothingQueued(k) ==
    /\ ~requests[k].queued
    /\ \A c \in ClientIds :
          \A p \in 1..Len(appended[c]) : appended[c][p].call # k

\* C26: a request without a function name is answered with status 400 and a
\* request refused for its client_id with status 404, and neither executes
\* a function nor changes a list.
C26_RequestErrors ==
    \A k \in CallIds :
       RefusedRequest(k) =>
          /\ requests[k].function = "" => requests[k].code = 400
          /\ requests[k].function # "" => requests[k].code = 404
          /\ NothingQueued(k)

\* ------------------------------------------------------------------ C27
\* C27: every request that named a client_id and passed its validation has,
\* once answered, appended exactly one result message to that client's list
\* and was answered with status success.
C27_ValidatedCallDelivers ==
    \A k \in CallIds :
       (requests[k].state = "answered" /\ requests[k].validated) =>
          /\ requests[k].code = 200
          /\ requests[k].status = "success"
          /\ Cardinality({p \in 1..Len(appended[requests[k].client.v]) :
                             appended[requests[k].client.v][p].call = k}) = 1

C29_ReturnedAreRegistered ==
    /\ [](scan.pc = "done" =>
            \A p \in 1..Len(scan.returned) : scan.returned[p] \in registered_tools)
    /\ [][ (scan.pc = "loop" /\ scan'.at = scan.at + 1
              /\ Eligible(scan.members[scan'.at])
              /\ scan.members[scan'.at].raises)
             => registered_tools' = registered_tools ]_vars

\* ------------------------------------------------------------------ C30
\* the input is one of those the function has to refuse: JSON that does not
\* parse, a point that is missing or no list of two, a wrong number of
\* pieces, a piece that is no number, a latitude outside [-90, 90]
MustFail(input) ==
    IF input.braced
    THEN \/ ~input.valid
         \/ input.point1.kind # "list" \/ Len(input.point1.items) # 2
         \/ input.point2.kind # "list" \/ Len(input.point2.items) # 2
         \/ Geodesic(input.point1.items, input.point2.items) = Raises
    ELSE \/ Len(input.parts) # 2
         \/ \E k \in 1..2 : Len(input.parts[k]) # 2
         \/ Geodesic(input.parts[1], input.parts[2]) = Raises

\* C30: a call returns a JSON text with status success or failure and never
\* raises; every input it has to refuse gives status failure; and two points
\* given in the simplified format give the distance the same points give in
\* the JSON format.
C30_NeverRaises ==
    geo.pc = "done" =>
       /\ geo.outcome.status \in {"success", "failure"}
       /\ MustFail(geo.input) => geo.outcome.status = "failure"
       /\ (~geo.input.braced /\ geo.outcome.status = "success") =>
             geo.outcome
                = CalculateGeodesicDistance(
                     JsonInput(TRUE, List(geo.input.parts[1]),
                               List(geo.input.parts[2])))

====
